---- MODULE Spec2Model ----
(***************************************************************************)
(* Registration-and-capacity lifecycle of the event management system:     *)
(* the Event seat ledger (total_seats / available_seats), the RSVP rows    *)
(* and their status, the CheckIn rows, and the request handlers that       *)
(* change them (create_rsvp, cancel_rsvp, perform_checkin, undo_checkin,   *)
(* event_create, event_update).                                            *)
(*                                                                         *)
(* No handler opens a transaction or takes a row lock, so (in Django's    *)
(* default autocommit mode) every ORM call (a query, a Model.save(), a     *)
(* create(), a delete()) is one database statement that commits by itself. *)
(* A handler is therefore a sequence of                                    *)
(* steps, one per database statement; the Python computation between two   *)
(* statements works on the objects the handler has loaded (proc[p].ev,     *)
(* proc[p].rv) and is part of the step that follows it.                    *)
(***************************************************************************)
EXTENDS Integers, FiniteSets, Sequences, TLC

(* ------------------------------ bounds --------------------------------- *)
\* largest total_seats an organizer submits
MaxSeats == 2
\* largest number_of_tickets an attendee submits
MaxTickets == 2
\* the clock runs from 0 to MaxTime
MaxTime == 1
\* number of distinct values the ticket number generator can return
NumTicketNumbers == 2

\* check-in/undo cycles of one registration that are counted
MaxCycles == 2

\* a cancellation is not taken up when it would raise available_seats beyond
\* this value (keeps available_seats, which no code caps, in a finite range)
SeatCap == MaxSeats

Users == {"u1", "u2"}
Organizer == "org"
AllUsers == Users \cup {Organizer}
Events == {1, 2}
Procs == {1, 2}
TicketNumbers == 1..NumTicketNumbers
\* the registrations are identified by (event, user): unique_together
RsvpIds == Events \X Users
NoId == <<0, "none">>

\* Event.STATUS_CHOICES values the organizer submits
StatusInputs == {"draft", "published"}
\* RSVP.STATUS_CHOICES
RsvpStatuses == {"pending", "confirmed", "cancelled", "attended"}

NoEvent == [status |-> "absent", start_date |-> 0, total_seats |-> 0,
            available_seats |-> 0, organizer |-> "none"]
NoRsvp == [status |-> "absent", number_of_tickets |-> 0, ticket_number |-> 0]
NoCheckIn == "none"
NoSnapshot == [events |-> [e \in Events |-> NoEvent],
               rsvps |-> [k \in RsvpIds |-> NoRsvp],
               checkins |-> [k \in RsvpIds |-> NoCheckIn]]
NoCreate == [rsvp_id |-> NoId, available_seats |-> 0]
NoUndo == [rsvp_id |-> NoId, cycles |-> 0]

IdleProc == [pc |-> "idle", kind |-> "none", user |-> "none", event |-> 0,
             rsvp_id |-> NoId, n |-> 0, ev |-> NoEvent, rv |-> NoRsvp,
             outcome |-> "none", pre |-> NoSnapshot, started |-> FALSE,
             scan |-> <<>>]

VARIABLES
    events,      \* table events: id -> row
    rsvps,       \* table rsvps: (event, user) -> row
    checkins,    \* table checkins: rsvp id -> checked_in_by
    now,         \* timezone.now()
    proc,        \* the request each worker is processing, and its last result
                 \* (pre: the tables when it began; started: whether its
                 \* event had started when it began; scan: the text
                 \* submitted to perform_checkin)
    lastCreate,  \* history: the last successful create_rsvp whose effect no
                 \* later write (other than the cancel of that very
                 \* registration) has touched, with available_seats before it
    lastUndo     \* history: the registration whose check-in was undone last,
                 \* with no request since other than check-ins and undos
                 \* of that registration, and how many times in a row
                 \* (counted up to MaxCycles) its check-in has been undone

vars == <<events, rsvps, checkins, now, proc, lastCreate, lastUndo>>

(* ------------------------------ helpers -------------------------------- *)
Min(a, b) == IF a < b THEN a ELSE b

\* Event.is_full
is_full(ev) == ev.available_seats <= 0

\* event.start_date < timezone.now()
has_started(ev) == ev.status # "absent" /\ ev.start_date < now

\* a worker takes a new request when it is not inside one
Ready(p) == proc[p].pc \in {"idle", "done"}

Snapshot == [events |-> events, rsvps |-> rsvps, checkins |-> checkins]

\* the request of worker p ends with outcome o
Finish(p, o) ==
    proc' = [proc EXCEPT ![p] = [@ EXCEPT !.pc = "done", !.outcome = o,
                                          !.ev = NoEvent, !.rv = NoRsvp]]

\* the request of worker p, not yet begun, ends at once with outcome o
Reject(p, kind, u, e, k, n, o) ==
    proc' = [proc EXCEPT ![p] = [IdleProc EXCEPT !.pc = "done", !.kind = kind,
                 !.user = u, !.event = e, !.rsvp_id = k, !.n = n,
                 !.outcome = o, !.pre = Snapshot,
                 !.started = has_started(events[e])]]

\* the request of worker p begins and continues at pc
Begin(p, kind, u, e, k, n, pc, ev, rv) ==
    proc' = [proc EXCEPT ![p] = [IdleProc EXCEPT !.pc = pc, !.kind = kind,
                 !.user = u, !.event = e, !.rsvp_id = k, !.n = n,
                 !.ev = ev, !.rv = rv, !.pre = Snapshot,
                 !.started = has_started(events[e])]]

\* a write by worker p is the cancel_rsvp of the registration lastCreate tracks
Tracked(p) == /\ proc[p].kind = "cancel_rsvp"
              /\ proc[p].rsvp_id = lastCreate.rsvp_id

\* a write by worker p is a check-in, or the undo of a check-in, of the
\* registration lastUndo tracks
TrackedUndo(p) == /\ proc[p].kind \in {"perform_checkin", "undo_checkin"}
                  /\ proc[p].rsvp_id = lastUndo.rsvp_id

KeepOrForget(p) ==
    /\ lastCreate' = IF Tracked(p) THEN lastCreate ELSE NoCreate
    /\ lastUndo' = IF TrackedUndo(p) THEN lastUndo ELSE NoUndo

\* RSVP.ticket_number is unique=True
TicketInUse(t) == \E k \in RsvpIds : /\ rsvps[k].status # "absent"
                                     /\ rsvps[k].ticket_number = t

(* ------------------------------ Init ----------------------------------- *)
\* The database is empty and no request is being processed.
Init ==
    /\ events = [e \in Events |-> NoEvent]
    /\ rsvps = [k \in RsvpIds |-> NoRsvp]
    /\ checkins = [k \in RsvpIds |-> NoCheckIn]
    /\ now = 0
    /\ proc = [p \in Procs |-> IdleProc]
    /\ lastCreate = NoCreate
    /\ lastUndo = NoUndo

(* --------------------------- notifications ----------------------------- *)
\* what can happen to a notification: it is sent; the mail backend fails
\* (email.send raises); the message cannot be built (render_to_string raises)
NotificationResults == {"sent", "send_failed", "build_failed"}

\* send_rsvp_notification: send_html_email catches what email.send raises
\* and returns False; render_to_string is called outside any try
send_rsvp_notification(result) ==
    IF result = "build_failed" THEN "raised" ELSE "returned"

\* the outcome of a request that has applied its change and then calls
\* send_rsvp_notification, which the view does not wrap in a try
AfterNotification(result) ==
    IF send_rsvp_notification(result) = "raised" THEN "notification_error"
    ELSE "ok"

(* --------------------------- create_rsvp ------------------------------- *)
\* event = get_object_or_404(Event, slug=event_slug, status='published')
CreateLoadEvent(p, u, e, n) ==
    /\ Ready(p)
    /\ IF events[e].status # "published"
       THEN Reject(p, "create_rsvp", u, e, <<e, u>>, n, "http404")
       ELSE Begin(p, "create_rsvp", u, e, <<e, u>>, n, "cr_existing",
                  events[e], NoRsvp)
    /\ lastUndo' = NoUndo
    /\ UNCHANGED <<events, rsvps, checkins, now, lastCreate>>

\* clean_number_of_tickets without the test number_of_tickets < 1
clean_number_of_tickets_no_min(n, ev) ==
    IF n > ev.available_seats THEN "capacity" ELSE "valid"

\* RSVPForm.clean_number_of_tickets, on the event object the view loaded
clean_number_of_tickets(n, ev) ==
    IF n < 1 THEN "invalid"
    ELSE IF n > ev.available_seats THEN "capacity"
    ELSE "valid"

\* CreateDecision with 'attended' taken for an inactive registration
CreateDecision_attended_inactive(existing, ev, n) ==
    IF existing.status \notin {"absent", "cancelled", "attended"}
    THEN "duplicate"
    ELSE IF is_full(ev) THEN "full"
    ELSE IF has_started(ev) THEN "closed"
    ELSE IF clean_number_of_tickets(n, ev) # "valid"
         THEN clean_number_of_tickets(n, ev)
    ELSE "proceed"

\* CreateDecision without the check that the event has started
CreateDecision_no_start_check(existing, ev, n) ==
    IF existing.status \notin {"absent", "cancelled"} THEN "duplicate"
    ELSE IF is_full(ev) THEN "full"
    ELSE IF clean_number_of_tickets(n, ev) # "valid"
         THEN clean_number_of_tickets(n, ev)
    ELSE "proceed"

\* what the checks of create_rsvp decide, given the row the query for an
\* existing registration returned, in the order the view makes them
CreateDecision(existing, ev, n) ==
    IF existing.status \notin {"absent", "cancelled"} THEN "duplicate"
    ELSE IF is_full(ev) THEN "full"
    ELSE IF has_started(ev) THEN "closed"
    ELSE IF clean_number_of_tickets(n, ev) # "valid"
         THEN clean_number_of_tickets(n, ev)
    ELSE IF n > ev.available_seats THEN "capacity"
    ELSE "proceed"

\* existing_rsvp = RSVP.objects.filter(event=event, user=request.user).first()
\* and the checks up to the decision to reserve
CreateCheckExisting(p) ==
    /\ proc[p].pc = "cr_existing"
    /\ LET d == CreateDecision(rsvps[proc[p].rsvp_id], proc[p].ev, proc[p].n)
       IN IF d = "proceed"
          THEN proc' = [proc EXCEPT ![p].pc = "cr_save_event"]
          ELSE Finish(p, d)
    /\ UNCHANGED <<events, rsvps, checkins, now, lastCreate, lastUndo>>

\* event.available_seats -= rsvp.number_of_tickets
reserve(ev, n) == [ev EXCEPT !.available_seats = @ - n]

\* event.available_seats -= rsvp.number_of_tickets; event.save()
CreateSaveEvent(p) ==
    /\ proc[p].pc = "cr_save_event"
    /\ LET ev == reserve(proc[p].ev, proc[p].n)
       IN /\ events' = [events EXCEPT ![proc[p].event] = ev]
          /\ proc' = [proc EXCEPT ![p].pc = "cr_insert", ![p].ev = ev]
    /\ KeepOrForget(p)
    /\ UNCHANGED <<rsvps, checkins, now>>

\* RSVP.save that generates a ticket number on every save
RsvpSave_always_new_ticket(rv, t) == [rv EXCEPT !.ticket_number = t]

\* RSVP.save: if not self.ticket_number: self.ticket_number = f"TKT-..."
\* (t: the value the generator returns); the row that is then written
RsvpSave(rv, t) ==
    IF rv.ticket_number = 0 THEN [rv EXCEPT !.ticket_number = t] ELSE rv

\* the INSERT of rsvp.save() is refused by the database (IntegrityError)
InsertRefused(k, t) ==
    \/ rsvps[k].status # "absent"       \* unique_together (event, user)
    \/ TicketInUse(t)                   \* ticket_number unique
    \/ events[k[1]].status = "absent"   \* foreign key to events

\* rsvp.save(): RSVP.save picks the ticket number, then INSERTs the row
CreateInsertRsvp(p) ==
    /\ proc[p].pc = "cr_insert"
    /\ \E t \in TicketNumbers :
         LET k == proc[p].rsvp_id
             row == RsvpSave([status |-> "confirmed",
                              number_of_tickets |-> proc[p].n,
                              ticket_number |-> 0], t)
         IN IF InsertRefused(k, row.ticket_number)
            THEN /\ Finish(p, "error")
                 /\ UNCHANGED rsvps
            ELSE /\ rsvps' = [rsvps EXCEPT ![k] = row]
                 /\ proc' = [proc EXCEPT ![p].pc = "cr_confirm", ![p].rv = row]
    /\ KeepOrForget(p)
    /\ UNCHANGED <<events, checkins, now>>

\* rsvp.confirm(): status = 'confirmed'; save() writes every field of the
\* object the view holds; then send_rsvp_notification(rsvp, 'created') and
\* the success response
CreateConfirm(p) ==
    /\ proc[p].pc = "cr_confirm"
    /\ LET k == proc[p].rsvp_id
       IN /\ \E t \in TicketNumbers :
                rsvps' = [rsvps EXCEPT ![k] =
                            RsvpSave([proc[p].rv EXCEPT
                                        !.status = "confirmed"], t)]
          /\ lastCreate' = [rsvp_id |-> k,
                            available_seats |->
                               proc[p].pre.events[k[1]].available_seats]
    /\ lastUndo' = NoUndo
    /\ \E result \in NotificationResults : Finish(p, AfterNotification(result))
    /\ UNCHANGED <<events, checkins, now>>

(* --------------------------- cancel_rsvp ------------------------------- *)
\* cancel_rsvp that looks the registration up by its id alone
CancelLoad_any_user(p, u, k) ==
    /\ Ready(p)
    /\ events[k[1]].available_seats + rsvps[k].number_of_tickets <= SeatCap
    /\ IF rsvps[k].status = "absent"
       THEN Reject(p, "cancel_rsvp", u, k[1], k, 0, "http404")
       ELSE IF rsvps[k].status = "cancelled"
       THEN Reject(p, "cancel_rsvp", u, k[1], k, rsvps[k].number_of_tickets,
                   "already_cancelled")
       ELSE Begin(p, "cancel_rsvp", u, k[1], k, rsvps[k].number_of_tickets,
                  "ca_event", NoEvent, rsvps[k])
    /\ lastUndo' = NoUndo
    /\ UNCHANGED <<events, rsvps, checkins, now, lastCreate>>

\* rsvp = get_object_or_404(RSVP, id=rsvp_id, user=request.user)
\* and the check for an already cancelled registration
CancelLoad(p, u, k) ==
    /\ Ready(p)
    /\ events[k[1]].available_seats + rsvps[k].number_of_tickets <= SeatCap
    /\ IF rsvps[k].status = "absent" \/ k[2] # u
       THEN Reject(p, "cancel_rsvp", u, k[1], k, 0, "http404")
       ELSE IF rsvps[k].status = "cancelled"
       THEN Reject(p, "cancel_rsvp", u, k[1], k, rsvps[k].number_of_tickets,
                   "already_cancelled")
       ELSE Begin(p, "cancel_rsvp", u, k[1], k, rsvps[k].number_of_tickets,
                  "ca_event", NoEvent, rsvps[k])
    /\ lastUndo' = NoUndo
    /\ UNCHANGED <<events, rsvps, checkins, now, lastCreate>>

\* CancelDecision without the check for an attended registration
CancelDecision_no_attended_check(rv, ev) ==
    IF has_started(ev) THEN "started" ELSE "proceed"

\* the checks of cancel_rsvp that follow the already-cancelled check
CancelDecision(rv, ev) ==
    IF has_started(ev) THEN "started"
    ELSE IF rv.status = "attended" THEN "attended"
    ELSE "proceed"

\* rsvp.event is fetched on first use; the started and attended checks
CancelLoadEvent(p) ==
    /\ proc[p].pc = "ca_event"
    /\ LET ev == events[proc[p].event]
           d == CancelDecision(proc[p].rv, ev)
       IN IF ev.status = "absent" THEN Finish(p, "error")
          ELSE IF d # "proceed" THEN Finish(p, d)
          ELSE proc' = [proc EXCEPT ![p].pc = "ca_save_event", ![p].ev = ev]
    /\ UNCHANGED <<events, rsvps, checkins, now, lastCreate, lastUndo>>

\* release that gives back one seat whatever the number of tickets
release_one_seat(ev, n) == [ev EXCEPT !.available_seats = @ + 1]

\* self.event.available_seats += self.number_of_tickets
release(ev, n) == [ev EXCEPT !.available_seats = @ + n]

\* RSVP.cancel: status = 'cancelled'; event.available_seats += n; event.save()
CancelSaveEvent(p) ==
    /\ proc[p].pc = "ca_save_event"
    /\ proc[p].ev.available_seats + proc[p].rv.number_of_tickets <= SeatCap
    /\ LET ev == release(proc[p].ev, proc[p].rv.number_of_tickets)
       IN /\ events' = [events EXCEPT ![proc[p].event] = ev]
          /\ proc' = [proc EXCEPT ![p].pc = "ca_save_rsvp", ![p].ev = ev]
    /\ KeepOrForget(p)
    /\ UNCHANGED <<rsvps, checkins, now>>

\* RSVP.cancel: self.save() writes every field of the object the view holds;
\* then send_rsvp_notification(rsvp, 'cancelled') and the success response
CancelSaveRsvp(p) ==
    /\ proc[p].pc = "ca_save_rsvp"
    /\ \E t \in TicketNumbers :
          rsvps' = [rsvps EXCEPT ![proc[p].rsvp_id] =
                      RsvpSave([proc[p].rv EXCEPT !.status = "cancelled"], t)]
    /\ \E result \in NotificationResults : Finish(p, AfterNotification(result))
    /\ KeepOrForget(p)
    /\ UNCHANGED <<events, checkins, now>>

(* ----------------------------- scan strings ---------------------------- *)
\* A string is a sequence of characters.  The letters that occur in ticket
\* numbers and QR payloads, in upper and in lower case, position by position:
UpperCase == <<"A", "B", "C", "E", "I", "K", "N", "R", "S", "T", "U", "V">>
LowerCase == <<"a", "b", "c", "e", "i", "k", "n", "r", "s", "t", "u", "v">>
Whitespace == {" "}

MinOf(S) == CHOOSE x \in S : \A y \in S : x <= y
MaxOf(S) == CHOOSE x \in S : \A y \in S : y <= x

\* str.upper() and str.lower()
upper_char(c) ==
    IF \E i \in 1..Len(LowerCase) : LowerCase[i] = c
    THEN UpperCase[CHOOSE i \in 1..Len(LowerCase) : LowerCase[i] = c]
    ELSE c
lower_char(c) ==
    IF \E i \in 1..Len(UpperCase) : UpperCase[i] = c
    THEN LowerCase[CHOOSE i \in 1..Len(UpperCase) : UpperCase[i] = c]
    ELSE c
upper(s) == [i \in 1..Len(s) |-> upper_char(s[i])]
lower(s) == [i \in 1..Len(s) |-> lower_char(s[i])]

\* str.strip(): without the leading and the trailing whitespace
strip(s) ==
    LET keep == {i \in 1..Len(s) : s[i] \notin Whitespace}
    IN IF keep = {} THEN <<>> ELSE SubSeq(s, MinOf(keep), MaxOf(keep))

\* sub in s
contains(s, sub) ==
    \E i \in 1..(Len(s) - Len(sub) + 1) : SubSeq(s, i, i + Len(sub) - 1) = sub

\* s.split(sep)[0]: the part before the first separator, or all of s
split_first(s, sep) ==
    LET at == {i \in 1..Len(s) : s[i] = sep}
    IN IF at = {} THEN s ELSE SubSeq(s, 1, MinOf(at) - 1)

\* s.replace(old, ''): s without the occurrences of old, from left to right
RECURSIVE remove(_, _)
remove(s, old) ==
    IF Len(s) < Len(old) THEN s
    ELSE IF SubSeq(s, 1, Len(old)) = old
         THEN remove(SubSeq(s, Len(old) + 1, Len(s)), old)
    ELSE <<s[1]>> \o remove(Tail(s), old)

TicketTag == <<"T", "I", "C", "K", "E", "T", ":">>
EventTag == <<"|", "E", "V", "E", "N", "T", ":">>
UserTag == <<"|", "U", "S", "E", "R", ":">>

\* the hexadecimal digits uuid4().hex[:12].upper() is made of; the model's
\* ticket numbers carry one digit, the t-th value of the generator
HexDigits == <<"A", "1", "B", "2", "C", "3", "E", "4">>
\* f"TKT-{uuid.uuid4().hex[:12].upper()}"
ticket_text(t) == <<"T", "K", "T", "-", HexDigits[t]>>

\* the primary keys of events and users as decimal text
DecimalDigits == <<"1", "2", "3", "4", "5", "6", "7", "8", "9">>
id_text(i) == <<DecimalDigits[i]>>
user_id(u) == IF u = "u1" THEN 1 ELSE IF u = "u2" THEN 2 ELSE 3

\* RSVP.generate_qr_code:
\* qr_data = f"TICKET:{self.ticket_number}|EVENT:{self.event.id}|USER:{self.user.id}"
qr_data(t, e, u) ==
    TicketTag \o ticket_text(t) \o EventTag \o id_text(e)
              \o UserTag \o id_text(user_id(u))

\* scan_ticket_number that does not convert the input to upper case
scan_ticket_number_no_upper(raw) ==
    LET s == strip(raw)
    IN IF contains(s, TicketTag)
       THEN remove(split_first(s, "|"), TicketTag)
       ELSE s

\* perform_checkin: ticket_number = cleaned_data['ticket_number'].strip()
\* .upper(); if 'TICKET:' in ticket_number: ticket_number =
\* ticket_number.split('|')[0].replace('TICKET:', '')
scan_ticket_number(raw) ==
    LET s == upper(strip(raw))
    IN IF contains(s, TicketTag)
       THEN remove(split_first(s, "|"), TicketTag)
       ELSE s

\* CheckInForm.is_valid(): ticket_number is a required CharField
form_is_valid(raw) == strip(raw) # <<>>

\* what an operator may submit for a text: the text as it is, in lower
\* case, and either of them with whitespace around it
pad(s) == <<" ">> \o s \o <<" ">>
Variants(s) == {s, lower(s), pad(s), pad(lower(s))}

\* the texts submitted for ticket number t: the number itself and the QR
\* payloads that carry it, naming any event and any user
TicketForms(t) ==
    Variants(ticket_text(t))
    \cup UNION {Variants(qr_data(t, e, u)) : e \in Events, u \in Users}

ScanInputs == UNION {TicketForms(t) : t \in TicketNumbers} \cup {<<" ">>}

\* what the view makes of each scan input: whether the form accepts it, and
\* the ticket number it looks up
ScanResult ==
    [raw \in ScanInputs |-> [valid |-> form_is_valid(raw),
                             ticket_number |-> scan_ticket_number(raw)]]

(* -------------------------- perform_checkin ---------------------------- *)
\* the lookup by ticket_number alone, whatever the event of the registration
FindRsvp_any_event(text, e) ==
    {k \in RsvpIds : /\ rsvps[k].status # "absent"
                     /\ ticket_text(rsvps[k].ticket_number) = text}

\* RSVP.objects.get(ticket_number=ticket_number, event=event)
FindRsvp(text, e) == {k \in RsvpIds : /\ k[1] = e
                                      /\ rsvps[k].status # "absent"
                                      /\ ticket_text(rsvps[k].ticket_number)
                                            = text}

\* CheckinDecision without the organizer check
CheckinDecision_no_organizer_check(ev, u, valid, found, has_checkin) ==
    IF ev.status = "absent" THEN "http404"
    ELSE IF ~valid THEN "invalid"
    ELSE IF found = {} THEN "ticket_not_found"
    ELSE IF has_checkin THEN "already_checked_in"
    ELSE "proceed"

\* CheckinDecision without the test for an existing CheckIn row
CheckinDecision_no_checkin_test(ev, u, valid, found, has_checkin) ==
    IF ev.status = "absent" THEN "http404"
    ELSE IF ev.organizer # u THEN "forbidden"
    ELSE IF ~valid THEN "invalid"
    ELSE IF found = {} THEN "ticket_not_found"
    ELSE "proceed"

\* what the checks of perform_checkin decide, in the order the view makes
\* them: the event, the organizer, the form, the lookup of the registration
\* (found: the rows it matches) and hasattr(rsvp, 'checkin')
CheckinDecision(ev, u, valid, found, has_checkin) ==
    IF ev.status = "absent" THEN "http404"
    ELSE IF ev.organizer # u THEN "forbidden"
    ELSE IF ~valid THEN "invalid"
    ELSE IF found = {} THEN "ticket_not_found"
    ELSE IF has_checkin THEN "already_checked_in"
    ELSE "proceed"

\* the request up to the decision to check in: user u submits the scan
\* input raw for event e
CheckinLookup(p, u, e, raw) ==
    /\ Ready(p)
    /\ LET found == FindRsvp(ScanResult[raw].ticket_number, e)
           rsvp == IF found = {} THEN NoId ELSE CHOOSE x \in found : TRUE
           d == CheckinDecision(events[e], u, ScanResult[raw].valid, found,
                                rsvp # NoId /\ checkins[rsvp] # NoCheckIn)
           k == IF d \in {"proceed", "already_checked_in"} THEN rsvp
                ELSE NoId
           request == [IdleProc EXCEPT !.kind = "perform_checkin",
                          !.user = u, !.event = e, !.rsvp_id = k,
                          !.scan = raw, !.pre = Snapshot,
                          !.started = has_started(events[e])]
       IN /\ proc' = [proc EXCEPT ![p] =
                        IF d = "proceed"
                        THEN [request EXCEPT !.pc = "ci_create",
                                             !.rv = rsvps[k]]
                        ELSE [request EXCEPT !.pc = "done", !.outcome = d]]
          /\ lastUndo' = IF k = lastUndo.rsvp_id THEN lastUndo ELSE NoUndo
    /\ UNCHANGED <<events, rsvps, checkins, now, lastCreate>>

\* CheckIn.objects.create(rsvp=rsvp, checked_in_by=request.user, ...):
\* rsvp is a OneToOneField, so a second row for the registration is refused
CheckinCreate(p) ==
    /\ proc[p].pc = "ci_create"
    /\ LET k == proc[p].rsvp_id
       IN IF checkins[k] # NoCheckIn \/ rsvps[k].status = "absent"
          THEN /\ Finish(p, "error")
               /\ UNCHANGED checkins
          ELSE /\ checkins' = [checkins EXCEPT ![k] = proc[p].user]
               /\ proc' = [proc EXCEPT ![p].pc = "ci_mark"]
    /\ KeepOrForget(p)
    /\ UNCHANGED <<events, rsvps, now>>

\* mark_attended that also takes the tickets off the event's free seats
CheckinMarkAttended_takes_seats(p) ==
    /\ proc[p].pc = "ci_mark"
    /\ \E t \in TicketNumbers :
          rsvps' = [rsvps EXCEPT ![proc[p].rsvp_id] =
                      RsvpSave([proc[p].rv EXCEPT !.status = "attended"], t)]
    /\ events' = [events EXCEPT ![proc[p].event] =
                     reserve(@, proc[p].rv.number_of_tickets)]
    /\ Finish(p, "ok")
    /\ KeepOrForget(p)
    /\ UNCHANGED <<checkins, now>>

\* RSVP.mark_attended: status = 'attended'; save()
CheckinMarkAttended(p) ==
    /\ proc[p].pc = "ci_mark"
    /\ \E t \in TicketNumbers :
          rsvps' = [rsvps EXCEPT ![proc[p].rsvp_id] =
                      RsvpSave([proc[p].rv EXCEPT !.status = "attended"], t)]
    /\ Finish(p, "ok")
    /\ KeepOrForget(p)
    /\ UNCHANGED <<events, checkins, now>>

(* --------------------------- undo_checkin ------------------------------ *)
\* checkin = get_object_or_404(CheckIn, id=checkin_id); event =
\* checkin.rsvp.event; the organizer check
UndoLoad(p, u, k) ==
    /\ Ready(p)
    /\ IF checkins[k] = NoCheckIn
       THEN Reject(p, "undo_checkin", u, k[1], k, 0, "http404")
       ELSE IF events[k[1]].organizer # u
       THEN Reject(p, "undo_checkin", u, k[1], k, 0, "forbidden")
       ELSE Begin(p, "undo_checkin", u, k[1], k, 0, "un_save",
                  NoEvent, rsvps[k])
    /\ lastUndo' = IF k = lastUndo.rsvp_id THEN lastUndo ELSE NoUndo
    /\ UNCHANGED <<events, rsvps, checkins, now, lastCreate>>

\* checkin.rsvp.status = 'confirmed'; checkin.rsvp.save()
UndoSaveRsvp(p) ==
    /\ proc[p].pc = "un_save"
    /\ \E t \in TicketNumbers :
          rsvps' = [rsvps EXCEPT ![proc[p].rsvp_id] =
                      RsvpSave([proc[p].rv EXCEPT !.status = "confirmed"], t)]
    /\ proc' = [proc EXCEPT ![p].pc = "un_delete"]
    /\ KeepOrForget(p)
    /\ UNCHANGED <<events, checkins, now>>

\* the undo of a check-in of registration k is recorded in lastUndo
NoteUndo(k) ==
    /\ lastCreate' = NoCreate
    /\ lastUndo' = [rsvp_id |-> k,
                    cycles |-> IF lastUndo.rsvp_id = k
                               THEN Min(lastUndo.cycles + 1, MaxCycles)
                               ELSE 1]

\* undo_checkin that leaves the CheckIn row in place
UndoDelete_keeps_row(p) ==
    /\ proc[p].pc = "un_delete"
    /\ Finish(p, "ok")
    /\ NoteUndo(proc[p].rsvp_id)
    /\ UNCHANGED <<events, rsvps, checkins, now>>

\* checkin.delete()
UndoDelete(p) ==
    /\ proc[p].pc = "un_delete"
    /\ checkins' = [checkins EXCEPT ![proc[p].rsvp_id] = NoCheckIn]
    /\ Finish(p, "ok")
    /\ NoteUndo(proc[p].rsvp_id)
    /\ UNCHANGED <<events, rsvps, now>>

(* --------------------------- event_create ------------------------------ *)
\* EventForm.clean: 'Start date cannot be in the past.'
StartDateValid(s) == ~(s < now)

\* Event.save on the first save: available_seats = total_seats
NewEvent(u, total, status, s) ==
    [status |-> status, start_date |-> s, total_seats |-> total,
     available_seats |-> total, organizer |-> u]

\* event_create: form.is_valid(); event.organizer = request.user; event.save()
EventCreate(p, u, e, total, status, s) ==
    /\ Ready(p)
    /\ events[e].status = "absent"
    /\ \A e2 \in Events : e2 < e => events[e2].status # "absent"
    /\ IF StartDateValid(s)
       THEN /\ events' = [events EXCEPT ![e] = NewEvent(u, total, status, s)]
            /\ Reject(p, "event_create", u, e, NoId, 0, "ok")
       ELSE /\ Reject(p, "event_create", u, e, NoId, 0, "invalid")
            /\ UNCHANGED events
    /\ lastCreate' = NoCreate
    /\ lastUndo' = NoUndo
    /\ UNCHANGED <<rsvps, checkins, now>>

(* --------------------------- event_update ------------------------------ *)
\* an update that also sets available_seats to the submitted total_seats
ApplyForm_resets_seats(ev, total, status, s) ==
    [ev EXCEPT !.total_seats = total, !.status = status, !.start_date = s,
               !.available_seats = total]

\* EventForm.Meta.fields: the fields an update assigns from the form; the
\* others (available_seats, organizer) keep the values of the loaded object
ApplyForm(ev, total, status, s) ==
    [ev EXCEPT !.total_seats = total, !.status = status, !.start_date = s]

\* event = get_object_or_404(Event, slug=slug); the organizer check;
\* form = EventForm(request.POST, instance=event); form.is_valid()
EventUpdateLoad(p, u, e, total, status, s) ==
    /\ Ready(p)
    /\ IF events[e].status = "absent"
       THEN Reject(p, "event_update", u, e, NoId, 0, "http404")
       ELSE IF events[e].organizer # u
       THEN Reject(p, "event_update", u, e, NoId, 0, "forbidden")
       ELSE IF ~StartDateValid(s)
       THEN Reject(p, "event_update", u, e, NoId, 0, "invalid")
       ELSE Begin(p, "event_update", u, e, NoId, 0, "up_save",
                  ApplyForm(events[e], total, status, s), NoRsvp)
    /\ lastUndo' = NoUndo
    /\ UNCHANGED <<events, rsvps, checkins, now, lastCreate>>

\* updated_event = form.save(): writes every field of the loaded object
EventUpdateSave(p) ==
    /\ proc[p].pc = "up_save"
    /\ events' = [events EXCEPT ![proc[p].event] = proc[p].ev]
    /\ Finish(p, "ok")
    /\ KeepOrForget(p)
    /\ UNCHANGED <<rsvps, checkins, now>>

(* --------------------------- event_delete ------------------------------ *)
\* event = get_object_or_404(Event, slug=slug); the organizer check
EventDeleteLoad(p, u, e) ==
    /\ Ready(p)
    /\ IF events[e].status = "absent"
       THEN Reject(p, "event_delete", u, e, NoId, 0, "http404")
       ELSE IF events[e].organizer # u
       THEN Reject(p, "event_delete", u, e, NoId, 0, "forbidden")
       ELSE Begin(p, "event_delete", u, e, NoId, 0, "de_delete",
                  events[e], NoRsvp)
    /\ lastUndo' = NoUndo
    /\ UNCHANGED <<events, rsvps, checkins, now, lastCreate>>

\* event.delete() that removes the row of the event alone
EventDeleteRows_no_cascade(p) ==
    /\ proc[p].pc = "de_delete"
    /\ events' = [events EXCEPT ![proc[p].event] = NoEvent]
    /\ Finish(p, "ok")
    /\ lastCreate' = NoCreate
    /\ lastUndo' = NoUndo
    /\ UNCHANGED <<rsvps, checkins, now>>

\* event.delete(): RSVP.event and CheckIn.rsvp are on_delete=CASCADE, so
\* the collector deletes, in one transaction, the CheckIn rows of the
\* event's registrations, the registrations and the event
EventDeleteRows(p) ==
    /\ proc[p].pc = "de_delete"
    /\ checkins' = [k \in RsvpIds |->
                      IF k[1] = proc[p].event THEN NoCheckIn ELSE checkins[k]]
    /\ rsvps' = [k \in RsvpIds |->
                   IF k[1] = proc[p].event THEN NoRsvp ELSE rsvps[k]]
    /\ events' = [events EXCEPT ![proc[p].event] = NoEvent]
    /\ Finish(p, "ok")
    /\ lastCreate' = NoCreate
    /\ lastUndo' = NoUndo
    /\ UNCHANGED now

(* ------------------------------ clock ---------------------------------- *)
Tick ==
    /\ now < MaxTime
    /\ now' = now + 1
    /\ UNCHANGED <<events, rsvps, checkins, proc, lastCreate, lastUndo>>

(* --------------------------- specifications ---------------------------- *)
\* the start dates an organizer submits: the earliest date and the current
\* time (the first lies in the past once the clock has advanced)
StartInputs == {0, now}

\* number_of_tickets is an IntegerField: the form field accepts any integer,
\* and the values below 1 stand for all of them
TicketInputs == (-1) .. MaxTickets

\* the requests of worker p, by the users U, on the events E
CreateRsvp(p, U, E) ==
    \/ \E u \in U, e \in E, n \in TicketInputs : CreateLoadEvent(p, u, e, n)
    \/ CreateCheckExisting(p)
    \/ CreateSaveEvent(p)
    \/ CreateInsertRsvp(p)
    \/ CreateConfirm(p)

CancelRsvp(p, E) ==
    \/ \E u \in AllUsers, k \in E \X Users : CancelLoad(p, u, k)
    \/ CancelLoadEvent(p)
    \/ CancelSaveEvent(p)
    \/ CancelSaveRsvp(p)

PerformCheckin(p, E) ==
    \/ \E u \in {Organizer, "u1"}, e \in E, t \in TicketNumbers :
          CheckinLookup(p, u, e, ticket_text(t))
    \/ CheckinCreate(p)
    \/ CheckinMarkAttended(p)

UndoCheckin(p, E) ==
    \/ \E u \in {Organizer, "u1"}, k \in E \X Users : UndoLoad(p, u, k)
    \/ UndoSaveRsvp(p)
    \/ UndoDelete(p)

EventUpdate(p, U, E) ==
    \/ \E u \in U, e \in E, total \in 1..MaxSeats,
          status \in StatusInputs, s \in StartInputs :
          EventUpdateLoad(p, u, e, total, status, s)
    \/ EventUpdateSave(p)

EventRequests(p, E) ==
    \/ \E e \in E, total \in 1..MaxSeats, status \in StatusInputs,
          s \in StartInputs : EventCreate(p, Organizer, e, total, status, s)
    \/ EventUpdate(p, {Organizer, "u1"}, E)

EventDelete(p, U, E) ==
    \/ \E u \in U, e \in E : EventDeleteLoad(p, u, e)
    \/ EventDeleteRows(p)

Request(p, E) ==
    \/ CreateRsvp(p, Users, E)
    \/ CancelRsvp(p, E)
    \/ PerformCheckin(p, E)
    \/ UndoCheckin(p, E)
    \/ EventRequests(p, E)
    \/ EventDelete(p, {Organizer, "u1"}, E)

\* the events the requests of Spec address
MainEvents == {1}

\* requests arrive one after the other: each is completed before the next
Next ==
    \/ Tick
    \/ Request(1, MainEvents)

Spec == Init /\ [][Next]_vars

\* The organizer has created and published event 1; two workers process
\* registration requests for it at the same time, worker 1 those of u1 and
\* worker 2 those of u2.
InitRace ==
    /\ \E t \in 1..MaxSeats :
          events = [e \in Events |->
                      IF e = 1
                      THEN NewEvent(Organizer, t, "published", MaxTime)
                      ELSE NoEvent]
    /\ rsvps = [k \in RsvpIds |-> NoRsvp]
    /\ checkins = [k \in RsvpIds |-> NoCheckIn]
    /\ now = 0
    /\ proc = [p \in Procs |-> IdleProc]
    /\ lastCreate = NoCreate
    /\ lastUndo = NoUndo

UserOf(p) == IF p = 1 THEN "u1" ELSE "u2"

NextRace == \E p \in Procs : CreateRsvp(p, {UserOf(p)}, MainEvents)

SpecRace == InitRace /\ [][NextRace]_vars

\* The organizer has created and published event 1 and attendees hold
\* confirmed registrations for it (u1 always, u2 when seats were left); two
\* workers process check-in requests for the event at the same time.
InitCheckinRace ==
    /\ \E total \in 1..MaxSeats, n1 \in 1..MaxTickets, n2 \in 0..MaxTickets :
          /\ n1 + n2 <= total
          /\ events = [e \in Events |->
                         IF e = 1
                         THEN reserve(NewEvent(Organizer, total, "published",
                                               MaxTime), n1 + n2)
                         ELSE NoEvent]
          /\ rsvps = [k \in RsvpIds |->
                        IF k = <<1, "u1">>
                        THEN [status |-> "confirmed", number_of_tickets |-> n1,
                              ticket_number |-> 1]
                        ELSE IF k = <<1, "u2">> /\ n2 > 0
                        THEN [status |-> "confirmed", number_of_tickets |-> n2,
                              ticket_number |-> 2]
                        ELSE NoRsvp]
    /\ checkins = [k \in RsvpIds |-> NoCheckIn]
    /\ now = 0
    /\ proc = [p \in Procs |-> IdleProc]
    /\ lastCreate = NoCreate
    /\ lastUndo = NoUndo

NextCheckinRace == \E p \in Procs : PerformCheckin(p, MainEvents)

SpecCheckinRace == InitCheckinRace /\ [][NextCheckinRace]_vars

\* The same preset registrations; two workers process cancel_rsvp requests
\* for the event at the same time.
NextCancelRace == \E p \in Procs : CancelRsvp(p, MainEvents)

SpecCancelRace == InitCheckinRace /\ [][NextCancelRace]_vars

\* The same preset registrations; worker 1 processes the registration
\* requests of u2 while worker 2 processes cancel_rsvp requests and the
\* organizer's event_update requests for the same event.
NextSeatRace ==
    \/ CreateRsvp(1, {"u2"}, MainEvents)
    \/ CancelRsvp(2, MainEvents)
    \/ EventUpdate(2, {Organizer}, MainEvents)

SpecSeatRace == InitCheckinRace /\ [][NextSeatRace]_vars

\* The same preset registrations; worker 1 processes cancel_rsvp requests
\* while worker 2 processes check-in requests for the same event.
NextCancelCheckinRace ==
    \/ CancelRsvp(1, MainEvents)
    \/ PerformCheckin(2, MainEvents)

SpecCancelCheckinRace == InitCheckinRace /\ [][NextCancelCheckinRace]_vars

\* perform_checkin requests of the organizer, served by worker p, on the
\* events E, with any of the scan inputs
ScanCheckin(p, E) ==
    \/ \E e \in E, raw \in ScanInputs : CheckinLookup(p, Organizer, e, raw)
    \/ CheckinCreate(p)
    \/ CheckinMarkAttended(p)

\* The organizer has created and published two events; each ticket number
\* is held by at most one confirmed registration of one ticket, of either
\* event; check-in requests for both events are served one after the other.
InitScan ==
    /\ \E holder \in [TicketNumbers -> RsvpIds \cup {NoId}] :
          LET held(e) == {t \in TicketNumbers :
                             holder[t] # NoId /\ holder[t][1] = e}
          IN /\ \A t1, t2 \in TicketNumbers :
                   (t1 # t2 /\ holder[t1] # NoId) => holder[t1] # holder[t2]
             /\ \A e \in Events : Cardinality(held(e)) <= MaxSeats
             /\ events = [e \in Events |->
                            reserve(NewEvent(Organizer, MaxSeats, "published",
                                             MaxTime), Cardinality(held(e)))]
             /\ rsvps = [k \in RsvpIds |->
                           IF \E t \in TicketNumbers : holder[t] = k
                           THEN [status |-> "confirmed",
                                 number_of_tickets |-> 1,
                                 ticket_number |->
                                    CHOOSE t \in TicketNumbers : holder[t] = k]
                           ELSE NoRsvp]
    /\ checkins = [k \in RsvpIds |-> NoCheckIn]
    /\ now = 0
    /\ proc = [p \in Procs |-> IdleProc]
    /\ lastCreate = NoCreate
    /\ lastUndo = NoUndo

NextScan == ScanCheckin(1, Events)

SpecScan == InitScan /\ [][NextScan]_vars

(* ------------------------------ claims --------------------------------- *)
\* no request is being processed
AllQuiet == \A p \in Procs : Ready(p)

\* worker 1 has just completed a request of this kind
Completed(kind) == proc[1].pc = "done" /\ proc[1].kind = kind

\* the event and the registration the request of worker 1 was about, when
\* the request began and now
PreEvent == proc[1].pre.events[proc[1].event]
PreRow == proc[1].pre.rsvps[proc[1].rsvp_id]
CurEvent == events[proc[1].event]
CurRow == rsvps[proc[1].rsvp_id]

\* the request of worker 1 changed no table
NothingChanged == /\ events = proc[1].pre.events
                  /\ rsvps = proc[1].pre.rsvps
                  /\ checkins = proc[1].pre.checkins

\* the request of worker p ended after it had applied its change
AppliedBy(p) == proc[p].outcome \in {"ok", "notification_error"}
Applied == AppliedBy(1)

ActiveStatuses == {"pending", "confirmed", "attended"}
CapacityExceeded == {"full", "capacity"}
EventClosed == {"http404", "closed"}
InvalidTransition == {"already_cancelled", "started", "attended"}

RECURSIVE SumTickets(_)
SumTickets(S) ==
    IF S = {} THEN 0
    ELSE LET k == CHOOSE x \in S : TRUE
         IN rsvps[k].number_of_tickets + SumTickets(S \ {k})

\* number_of_tickets of the non-cancelled registrations of event e
ActiveTickets(e) ==
    SumTickets({k \in RsvpIds : k[1] = e /\ rsvps[k].status \in ActiveStatuses})

\* C1: between requests, every event has 0 <= available_seats <= total_seats.
C1_SeatsWithinBounds ==
    AllQuiet =>
      \A e \in Events :
         events[e].status # "absent" =>
            /\ 0 <= events[e].available_seats
            /\ events[e].available_seats <= events[e].total_seats

\* C2: with registration requests of different users running concurrently
\* the event is never oversold: the tickets of its non-cancelled
\* registrations never exceed total_seats, and once the requests are
\* complete available_seats is total_seats less the tickets registered.
C2_NeverOversold ==
    \A e \in Events :
       events[e].status # "absent" =>
          /\ ActiveTickets(e) <= events[e].total_seats
          /\ AllQuiet =>
                events[e].available_seats =
                   events[e].total_seats - ActiveTickets(e)

\* C3: a create_rsvp request that ends without having persisted its
\* registration leaves available_seats as it was before the request.
C3_ReserveAllOrNothing ==
    (Completed("create_rsvp") /\ ~Applied
       /\ PreEvent.status # "absent")
    => CurEvent.available_seats = PreEvent.available_seats

\* C4: a create_rsvp request for n tickets on an open published event by a
\* user with no active registration reserves exactly n seats and persists a
\* confirmed registration when n <= available_seats, and otherwise fails as
\* capacity exceeded with no registration and no seat change.
C4_ReserveContract ==
    (Completed("create_rsvp") /\ PreEvent.status = "published"
       /\ PreEvent.start_date >= now /\ PreRow.status \notin ActiveStatuses
       /\ proc[1].n >= 1)
    => IF proc[1].n <= PreEvent.available_seats
       THEN /\ Applied
            /\ CurEvent.available_seats =
                  PreEvent.available_seats - proc[1].n
            /\ CurRow.status = "confirmed"
            /\ CurRow.number_of_tickets = proc[1].n
       ELSE /\ proc[1].outcome \in CapacityExceeded
            /\ NothingChanged

\* C5: a cancellation of a registration of n tickets sets available_seats
\* to min(available_seats + n, total_seats).
C5_ReleaseCapped ==
    (Completed("cancel_rsvp") /\ Applied)
    => CurEvent.available_seats =
          Min(PreEvent.available_seats + proc[1].n, PreEvent.total_seats)

\* C6: a successful registration followed by the successful cancellation of
\* that registration, with no other change of the tables in between,
\* restores available_seats to its value before the registration and leaves
\* the registration cancelled.
C6_RegisterCancelRoundTrip ==
    (Completed("cancel_rsvp") /\ Applied
       /\ lastCreate.rsvp_id = proc[1].rsvp_id)
    => /\ CurEvent.available_seats = lastCreate.available_seats
       /\ CurRow.status = "cancelled"

\* C6 witness: a registration of two tickets has been made and cancelled
C6_Witness ==
    /\ Completed("cancel_rsvp") /\ proc[1].outcome = "ok"
    /\ lastCreate.rsvp_id = proc[1].rsvp_id
    /\ proc[1].n = 2
    /\ CurRow.status = "cancelled"

\* C7 as stated: a create_rsvp request by a user who has a non-cancelled
\* registration for the event fails as a duplicate registration and changes
\* neither the seats nor any registration.
C7_DuplicateAlways ==
    (Completed("create_rsvp") /\ PreRow.status \in ActiveStatuses)
    => /\ proc[1].outcome = "duplicate"
       /\ NothingChanged

\* C7 amended: such a request changes nothing and fails as a duplicate
\* registration when the event is published; when the event is not
\* published it fails as not found.
C7_DuplicateOnPublished ==
    (Completed("create_rsvp") /\ PreRow.status \in ActiveStatuses)
    => /\ proc[1].outcome = IF PreEvent.status = "published"
                            THEN "duplicate" ELSE "http404"
       /\ NothingChanged

\* C7 witness: an attendee who has been checked in asked to register again
C7_Witness ==
    /\ Completed("create_rsvp") /\ proc[1].outcome = "duplicate"
    /\ PreRow.status = "attended"
    /\ CurRow.status = "attended"

\* C8: a user whose registration is cancelled registers again for the open
\* event with 1 <= n <= available_seats and succeeds: the registration is
\* confirmed and available_seats is lower by n.
C8_ReRegisterAfterCancel ==
    (Completed("create_rsvp") /\ PreRow.status = "cancelled"
       /\ PreEvent.status = "published" /\ PreEvent.start_date >= now
       /\ proc[1].n >= 1 /\ proc[1].n <= PreEvent.available_seats)
    => /\ Applied
       /\ CurRow.status = "confirmed"
       /\ CurEvent.available_seats = PreEvent.available_seats - proc[1].n

\* the event of the request of worker 1 had started, or was not published,
\* when the request began
WasClosed ==
    /\ PreEvent.status # "absent"
    /\ \/ PreEvent.status # "published"
       \/ proc[1].started

\* C9 as stated: a create_rsvp request on an event that has started or is
\* not published fails as event closed and changes nothing.
C9_ClosedAlways ==
    (Completed("create_rsvp") /\ WasClosed)
    => /\ proc[1].outcome \in EventClosed
       /\ NothingChanged

\* C9 amended: such a request changes nothing and fails: as not found when
\* the event is not published; on a published event that has started, as
\* duplicate when the user has an active registration, else as full when
\* available_seats <= 0, else as event closed.
C9_ClosedByPrecedence ==
    (Completed("create_rsvp") /\ WasClosed)
    => /\ proc[1].outcome =
             IF PreEvent.status # "published" THEN "http404"
             ELSE IF PreRow.status \in ActiveStatuses THEN "duplicate"
             ELSE IF PreEvent.available_seats <= 0 THEN "full"
             ELSE "closed"
       /\ NothingChanged

\* C9 witness: a request with a valid ticket count for a published event
\* with free seats that has started was refused as closed
C9_Witness ==
    /\ Completed("create_rsvp") /\ proc[1].outcome = "closed"
    /\ PreEvent.status = "published"
    /\ proc[1].started
    /\ proc[1].n >= 1 /\ proc[1].n <= PreEvent.available_seats

\* C10: a cancel_rsvp request of the owner cancels the registration and
\* releases its seats only when the registration is confirmed or pending
\* and the event has not started; when the registration is attended or
\* cancelled, or the event has started, it fails as an invalid transition
\* and changes neither the registration nor the seats.
C10_CancelTransition ==
    (Completed("cancel_rsvp") /\ proc[1].outcome # "http404")
    => /\ Applied =>
             /\ PreRow.status \in {"confirmed", "pending"}
             /\ ~proc[1].started
             /\ CurRow = [PreRow EXCEPT !.status = "cancelled"]
             /\ CurEvent.available_seats =
                   PreEvent.available_seats + PreRow.number_of_tickets
       /\ (\/ PreRow.status \in {"attended", "cancelled"}
           \/ proc[1].started) =>
             /\ proc[1].outcome \in InvalidTransition
             /\ NothingChanged
       /\ (PreRow.status \in {"confirmed", "pending"}
           /\ PreEvent.start_date >= now) => Applied

\* C10 witness: the cancellation of an attended registration was refused
\* before the event started
C10_Witness ==
    /\ Completed("cancel_rsvp") /\ proc[1].outcome = "attended"
    /\ PreRow.status = "attended"
    /\ PreEvent.start_date >= now
    /\ CurRow.status = "attended"

\* C11: a registration becomes 'attended' only from 'confirmed', and only by
\* a step of a perform_checkin request: never from 'cancelled' or 'pending'.
C11_AttendedOnlyFromConfirmed ==
    [][\A k \in RsvpIds :
          (rsvps'[k].status = "attended" /\ rsvps[k].status # "attended")
          => /\ rsvps[k].status = "confirmed"
             /\ \E p \in Procs : /\ proc[p].kind = "perform_checkin"
                                 /\ proc[p].pc = "ci_mark"]_vars

\* the registrations of the event of the request of worker 1 that the text
\* submitted to perform_checkin named when the request began
PreScanned ==
    {k \in RsvpIds : /\ k[1] = proc[1].event
                     /\ proc[1].pre.rsvps[k].status # "absent"
                     /\ ticket_text(proc[1].pre.rsvps[k].ticket_number)
                           = ScanResult[proc[1].scan].ticket_number}

\* the request of worker 1 was made by the organizer of its event
ByOrganizer == /\ PreEvent.status # "absent"
               /\ proc[1].user = PreEvent.organizer

\* C12: perform_checkin by the organizer on a registration without a CheckIn
\* row creates exactly one CheckIn row, with the organizer as checked_in_by,
\* and sets the registration to 'attended'; on a registration that has a
\* CheckIn row it fails as already checked in and changes nothing.
C12_CheckinContract ==
    (Completed("perform_checkin") /\ ByOrganizer)
    => \A k \in PreScanned :
          IF proc[1].pre.checkins[k] = NoCheckIn
          THEN /\ proc[1].outcome = "ok"
               /\ checkins = [proc[1].pre.checkins EXCEPT ![k] = proc[1].user]
               /\ rsvps = [proc[1].pre.rsvps EXCEPT ![k].status = "attended"]
          ELSE /\ proc[1].outcome = "already_checked_in"
               /\ NothingChanged

\* C12 witness: the organizer scanned the ticket of a registration that had
\* been checked in by the organizer before, and was told so
C12_Witness ==
    /\ Completed("perform_checkin") /\ ByOrganizer
    /\ proc[1].outcome = "already_checked_in"
    /\ \E k \in PreScanned : /\ proc[1].pre.checkins[k] = Organizer
                             /\ rsvps[k].status = "attended"
                             /\ checkins[k] = Organizer

\* both workers have completed a perform_checkin request that found the
\* same registration, and that registration had no CheckIn row when the
\* first of the two began
BothScanned ==
    /\ AllQuiet
    /\ \A p \in Procs : proc[p].kind = "perform_checkin"
    /\ proc[1].rsvp_id # NoId
    /\ proc[1].rsvp_id = proc[2].rsvp_id
    /\ \E p \in Procs : proc[p].pre.checkins[proc[p].rsvp_id] = NoCheckIn

\* C13: of two perform_checkin requests on the same registration, however
\* their steps interleave, one succeeds and the other is told that the
\* attendee is already checked in; there is one CheckIn row and no request
\* ends with an unhandled error.
C13_CheckinIdempotent ==
    BothScanned
    => /\ {proc[1].outcome, proc[2].outcome} = {"ok", "already_checked_in"}
       /\ checkins[proc[1].rsvp_id] # NoCheckIn

\* C14: undo_checkin by the organizer deletes the CheckIn row and sets the
\* registration to 'confirmed'; the perform_checkin of that registration
\* that follows succeeds, creating a new CheckIn row and setting 'attended'
\* again, each time the cycle is repeated.
C14_UndoThenCheckinAgain ==
    /\ (Completed("undo_checkin") /\ ByOrganizer
          /\ proc[1].pre.checkins[proc[1].rsvp_id] # NoCheckIn)
       => /\ proc[1].outcome = "ok"
          /\ checkins = [proc[1].pre.checkins EXCEPT
                            ![proc[1].rsvp_id] = NoCheckIn]
          /\ rsvps = [proc[1].pre.rsvps EXCEPT
                         ![proc[1].rsvp_id].status = "confirmed"]
          /\ lastUndo.rsvp_id = proc[1].rsvp_id
    /\ (Completed("perform_checkin") /\ ByOrganizer
          /\ lastUndo.rsvp_id \in PreScanned
          /\ proc[1].pre.checkins[lastUndo.rsvp_id] = NoCheckIn)
       => /\ proc[1].outcome = "ok"
          /\ proc[1].pre.rsvps[lastUndo.rsvp_id].status = "confirmed"
          /\ checkins[lastUndo.rsvp_id] = proc[1].user
          /\ rsvps[lastUndo.rsvp_id].status = "attended"

\* C14 witness: a registration has been checked in again after its check-in
\* was undone for the second time in a row
C14_Witness ==
    /\ Completed("perform_checkin") /\ proc[1].outcome = "ok"
    /\ lastUndo.rsvp_id = proc[1].rsvp_id
    /\ lastUndo.cycles = 2
    /\ proc[1].pre.checkins[proc[1].rsvp_id] = NoCheckIn
    /\ CurRow.status = "attended"
    /\ checkins[proc[1].rsvp_id] = Organizer

CheckinKinds == {"perform_checkin", "undo_checkin"}

\* C15: a perform_checkin or undo_checkin request by a user who is not the
\* organizer of the event is refused and changes no CheckIn row, no
\* registration and no seat count; only requests of the organizer get as
\* far as writing.
C15_OrganizerOnly ==
    /\ (proc[1].pc = "done" /\ proc[1].kind \in CheckinKinds
          /\ PreEvent.status # "absent" /\ proc[1].user # PreEvent.organizer)
       => /\ proc[1].outcome =
                IF /\ proc[1].kind = "undo_checkin"
                   /\ proc[1].pre.checkins[proc[1].rsvp_id] = NoCheckIn
                THEN "http404" ELSE "forbidden"
          /\ NothingChanged
    /\ \A p \in Procs :
          proc[p].pc \in {"ci_create", "ci_mark", "un_save", "un_delete"}
          => proc[p].user = events[proc[p].event].organizer

\* C15 witness: an attendee asked to undo the check-in of the own
\* registration and was refused
C15_Witness ==
    /\ Completed("undo_checkin") /\ proc[1].outcome = "forbidden"
    /\ proc[1].user = proc[1].rsvp_id[2]
    /\ checkins[proc[1].rsvp_id] = Organizer
    /\ CurRow.status = "attended"

\* C16: a perform_checkin or undo_checkin request, whatever its outcome,
\* leaves total_seats and available_seats of every event as they were and
\* changes nothing of a registration but its status.
C16_CheckinLeavesSeats ==
    (proc[1].pc = "done" /\ proc[1].kind \in CheckinKinds)
    => /\ events = proc[1].pre.events
       /\ \A k \in RsvpIds :
             rsvps[k] = [proc[1].pre.rsvps[k] EXCEPT
                            !.status = rsvps[k].status]

\* C16 witness: a registration of two tickets on a sold-out event has been
\* checked in
C16_Witness ==
    /\ Completed("perform_checkin") /\ proc[1].outcome = "ok"
    /\ CurRow.status = "attended" /\ CurRow.number_of_tickets = 2
    /\ CurEvent.available_seats = 0 /\ CurEvent.total_seats = 2

\* C17: the ticket_number of a registration is set when the registration is
\* first saved and no later step changes it, as long as the registration
\* exists (event_delete removes the registrations of its event).
C17_TicketNumberImmutable ==
    [][\A k \in RsvpIds :
          /\ rsvps'[k].status # "absent" => rsvps'[k].ticket_number # 0
          /\ (rsvps[k].status # "absent" /\ rsvps'[k].status # "absent")
             => rsvps'[k].ticket_number = rsvps[k].ticket_number]_vars

\* C17 witness: a registration that was created, checked in, undone, checked
\* in again and undone again still carries its ticket number
C17_Witness ==
    /\ Completed("undo_checkin") /\ proc[1].outcome = "ok"
    /\ lastUndo.rsvp_id = proc[1].rsvp_id /\ lastUndo.cycles = 2
    /\ CurRow.status = "confirmed"
    /\ CurRow.ticket_number \in TicketNumbers
    /\ CurRow.ticket_number = PreRow.ticket_number

\* C18: the ticket numbers of the registrations are pairwise distinct, and
\* a create_rsvp request that meets every condition for a registration
\* creates it whatever ticket number is generated.
C18_TicketsUniqueAndCreated ==
    /\ \A k1, k2 \in RsvpIds :
          (/\ k1 # k2
           /\ rsvps[k1].status # "absent"
           /\ rsvps[k2].status # "absent")
          => rsvps[k1].ticket_number # rsvps[k2].ticket_number
    /\ (Completed("create_rsvp") /\ PreRow.status = "absent"
          /\ PreEvent.status = "published" /\ ~proc[1].started
          /\ proc[1].n >= 1 /\ proc[1].n <= PreEvent.available_seats)
       => CurRow.status = "confirmed"

\* C19: for every registration R of the event the organizer scans for, the
\* ticket number of R and the QR payload generated for R, as they are, in
\* lower case or with whitespace around them, yield the ticket number of R
\* and the request resolves to R.
C19_ScanRoundTrip ==
    (Completed("perform_checkin") /\ ByOrganizer)
    => \A k \in RsvpIds :
          LET t == proc[1].pre.rsvps[k].ticket_number
          IN (/\ k[1] = proc[1].event
              /\ proc[1].pre.rsvps[k].status # "absent"
              /\ proc[1].scan \in Variants(ticket_text(t))
                                  \cup Variants(qr_data(t, k[1], k[2])))
             => /\ ScanResult[proc[1].scan].ticket_number = ticket_text(t)
                /\ proc[1].rsvp_id = k
                /\ proc[1].outcome \in {"ok", "already_checked_in"}

\* C19 witness: the QR payload of a registration, typed in lower case with
\* whitespace around it, checked that registration in
C19_Witness ==
    /\ Completed("perform_checkin") /\ proc[1].outcome = "ok"
    /\ proc[1].rsvp_id # NoId
    /\ proc[1].scan = pad(lower(qr_data(CurRow.ticket_number,
                                        proc[1].rsvp_id[1],
                                        proc[1].rsvp_id[2])))
    /\ CurRow.status = "attended"
    /\ checkins[proc[1].rsvp_id] = Organizer

\* C20: when the organizer scans, for an event, a ticket number that no
\* registration of that event carries (no registration at all, or one of
\* another event), the request fails as ticket not found and changes no
\* CheckIn row and no registration, whatever event the payload names.
C20_TicketNotFound ==
    (Completed("perform_checkin") /\ ByOrganizer)
    => \A t \in TicketNumbers :
          (/\ proc[1].scan \in TicketForms(t)
           /\ ~\E k \in RsvpIds : /\ k[1] = proc[1].event
                                  /\ proc[1].pre.rsvps[k].status # "absent"
                                  /\ proc[1].pre.rsvps[k].ticket_number = t)
          => /\ proc[1].outcome = "ticket_not_found"
             /\ NothingChanged

\* C20 witness: the ticket of a registration of another event was scanned
\* with a payload that names the event of the scan, and was not found
C20_Witness ==
    /\ Completed("perform_checkin") /\ proc[1].outcome = "ticket_not_found"
    /\ \E k \in RsvpIds :
          /\ k[1] # proc[1].event
          /\ rsvps[k].status = "confirmed"
          /\ proc[1].scan = qr_data(rsvps[k].ticket_number, proc[1].event,
                                    k[2])
          /\ checkins[k] = NoCheckIn

\* C21: once a create_rsvp or cancel_rsvp request has applied its change
\* (the registration is confirmed, or cancelled with its seats released), a
\* failure of the notification, the failure to build the message included,
\* neither undoes the change nor fails the request: it ends with its
\* success outcome.
C21_NotificationNeverSurfaces ==
    /\ (Completed("create_rsvp") /\ PreRow.status = "absent"
          /\ CurRow.status = "confirmed")
       => /\ proc[1].outcome = "ok"
          /\ CurEvent.available_seats = PreEvent.available_seats - proc[1].n
    /\ (Completed("cancel_rsvp") /\ PreRow.status = "confirmed"
          /\ CurRow.status = "cancelled")
       => /\ proc[1].outcome = "ok"
          /\ CurEvent.available_seats = PreEvent.available_seats + proc[1].n

\* C22: every persisted registration has number_of_tickets >= 1; a
\* create_rsvp request with number_of_tickets < 1 is rejected, creates no
\* registration and leaves available_seats unchanged.
C22_AtLeastOneTicket ==
    /\ \A k \in RsvpIds :
         rsvps[k].status # "absent" => rsvps[k].number_of_tickets >= 1
    /\ (Completed("create_rsvp") /\ proc[1].n < 1
          /\ PreEvent.status # "absent")
       => /\ ~Applied
          /\ CurRow = PreRow
          /\ CurEvent.available_seats = PreEvent.available_seats

\* a request for less than one ticket that only the ticket count stops: the
\* event is published, has not started and has free seats, and the user has
\* no registration
C22_Witness ==
    /\ Completed("create_rsvp")
    /\ proc[1].n < 1
    /\ proc[1].outcome = "invalid"
    /\ PreRow.status = "absent"
    /\ PreEvent.status = "published"
    /\ PreEvent.available_seats > 0
    /\ PreEvent.start_date >= now

\* C23: seat conservation. Between requests, for every event,
\* available_seats plus the number_of_tickets of its pending, confirmed and
\* attended registrations equals total_seats.
C23_SeatConservation ==
    AllQuiet =>
      \A e \in Events :
         events[e].status # "absent" =>
            events[e].available_seats + ActiveTickets(e)
               = events[e].total_seats

\* C24: between requests that run one after the other, a registration has
\* status 'attended' if and only if a CheckIn record exists for it.
\* (notifications.utils.send_event_cancellation_to_attendees would set
\* attended registrations to 'cancelled' and keep their CheckIn records, but
\* its only caller, notifications.utils.send_event_notification, is called
\* by no view: the view of that name calls send_bulk_notification, and
\* event_update sends its own mail. No request reaches it.)
C24_AttendedIffCheckIn ==
    AllQuiet =>
      \A k \in RsvpIds :
         rsvps[k].status = "attended" <=> checkins[k] # NoCheckIn

\* an undo has just taken a registration back from 'attended' to 'confirmed'
\* and removed its CheckIn record
C24_Witness ==
    /\ Completed("undo_checkin")
    /\ proc[1].outcome = "ok"
    /\ PreRow.status = "attended"
    /\ proc[1].pre.checkins[proc[1].rsvp_id] # NoCheckIn
    /\ CurRow.status = "confirmed"
    /\ checkins[proc[1].rsvp_id] = NoCheckIn

\* both workers have completed a request of the given kinds for the same
\* registration, and the two requests ran at the same time: each began
\* before the other had written anything
Concurrent(kind1, kind2) ==
    /\ proc[1].pc = "done" /\ proc[1].kind = kind1
    /\ proc[2].pc = "done" /\ proc[2].kind = kind2
    /\ proc[1].rsvp_id = proc[2].rsvp_id
    /\ proc[1].pre = proc[2].pre

\* both workers have completed a request of the given kinds for the same
\* event, each of which applied its change, and the two requests ran at the
\* same time
ConcurrentApplied(kind1, kind2) ==
    /\ proc[1].pc = "done" /\ proc[1].kind = kind1 /\ AppliedBy(1)
    /\ proc[2].pc = "done" /\ proc[2].kind = kind2 /\ AppliedBy(2)
    /\ proc[1].event = proc[2].event
    /\ proc[1].pre = proc[2].pre

\* the request of worker p was made by the owner of its registration
ByOwner(p) == proc[p].user = proc[p].rsvp_id[2]

\* C25: two concurrent cancel_rsvp requests of the owner on the same
\* confirmed registration of n tickets release the seats at most once:
\* available_seats ends exactly n higher than before.
C25_ReleasedOnce ==
    (Concurrent("cancel_rsvp", "cancel_rsvp") /\ PreRow.status = "confirmed"
       /\ ByOwner(1) /\ ByOwner(2))
    => CurEvent.available_seats
          = PreEvent.available_seats + PreRow.number_of_tickets

\* C26: no seat update is lost. When a create_rsvp request that registers n
\* tickets runs at the same time as a cancel_rsvp of another user that
\* releases m tickets, available_seats ends at its initial value - n + m;
\* when it runs at the same time as an event_update of the organizer,
\* available_seats ends at its initial value - n.
C26_NoLostSeatUpdate ==
    /\ ConcurrentApplied("create_rsvp", "cancel_rsvp")
       => CurEvent.available_seats
             = PreEvent.available_seats - proc[1].n + proc[2].n
    /\ ConcurrentApplied("create_rsvp", "event_update")
       => CurEvent.available_seats = PreEvent.available_seats - proc[1].n

\* C27: when a cancel_rsvp request of the attendee and a perform_checkin
\* request of the organizer run at the same time on the same confirmed
\* registration, the result is that of one of the two orders: either the
\* registration is cancelled, its seats are released and it has no CheckIn
\* record, or it is attended, has its CheckIn record and keeps its seats.
C27_CancelOrCheckin ==
    (Concurrent("cancel_rsvp", "perform_checkin")
       /\ PreRow.status = "confirmed" /\ ByOwner(1)
       /\ proc[2].user = Organizer)
    => \/ /\ CurRow.status = "cancelled"
          /\ checkins[proc[1].rsvp_id] = NoCheckIn
          /\ CurEvent.available_seats
                = PreEvent.available_seats + PreRow.number_of_tickets
       \/ /\ CurRow.status = "attended"
          /\ checkins[proc[1].rsvp_id] # NoCheckIn
          /\ CurEvent.available_seats = PreEvent.available_seats

\* C28: a cancel_rsvp request for a registration of another user, the
\* organizer of the event included, is refused and changes nothing.
C28_OnlyOwnerCancels ==
    (Completed("cancel_rsvp") /\ ~ByOwner(1))
    => /\ proc[1].outcome = "http404"
       /\ NothingChanged

\* the organizer's request to cancel a confirmed registration of an event
\* that has not started was refused
C28_Witness ==
    /\ Completed("cancel_rsvp")
    /\ proc[1].user = Organizer
    /\ PreEvent.organizer = Organizer
    /\ PreRow.status = "confirmed"
    /\ PreEvent.start_date >= now
    /\ proc[1].outcome = "http404"
    /\ CurRow.status = "confirmed"

\* C29: referential integrity. In every state every CheckIn record
\* references an existing registration and every registration references an
\* existing event; after event_delete by the organizer no registration and
\* no CheckIn record of the event remains.
C29_ReferentialIntegrity ==
    /\ \A k \in RsvpIds :
          /\ checkins[k] # NoCheckIn => rsvps[k].status # "absent"
          /\ rsvps[k].status # "absent" => events[k[1]].status # "absent"
    /\ (Completed("event_delete") /\ proc[1].outcome = "ok")
       => /\ CurEvent.status = "absent"
          /\ \A k \in RsvpIds :
                k[1] = proc[1].event =>
                   rsvps[k].status = "absent" /\ checkins[k] = NoCheckIn

\* the organizer has deleted an event that had a checked-in registration
C29_Witness ==
    /\ Completed("event_delete")
    /\ proc[1].outcome = "ok"
    /\ proc[1].user = Organizer
    /\ \E k \in RsvpIds :
          /\ k[1] = proc[1].event
          /\ proc[1].pre.rsvps[k].status = "attended"
          /\ proc[1].pre.checkins[k] # NoCheckIn
          /\ rsvps[k].status = "absent"

\* C30: a newly created event starts with available_seats = total_seats,
\* and an event_update by the organizer, which may change total_seats,
\* leaves available_seats as it was.
C30_SeatsSetOnlyAtCreation ==
    /\ (Completed("event_create") /\ proc[1].outcome = "ok")
       => CurEvent.available_seats = CurEvent.total_seats
    /\ (Completed("event_update") /\ proc[1].outcome = "ok")
       => CurEvent.available_seats = PreEvent.available_seats

\* an update changed total_seats of an event with a registration, and
\* available_seats, which stayed, differs from the new total_seats
C30_Witness ==
    /\ Completed("event_update")
    /\ proc[1].outcome = "ok"
    /\ CurEvent.total_seats # PreEvent.total_seats
    /\ CurEvent.available_seats = PreEvent.available_seats
    /\ CurEvent.available_seats # CurEvent.total_seats
    /\ ActiveTickets(proc[1].event) > 0

====
